---- MODULE Spec2Model ----
(***************************************************************************)
(* A model of the regex -> postfix -> NFA -> DFA -> match pipeline of      *)
(* src/main.py.  A pattern is a sequence of one-character strings.  The    *)
(* pipeline runs one function after the other; the loops of                *)
(* infix_to_postfix, postfix_to_nfa and to_dfa advance one iteration per   *)
(* step.  A Python exception ends the run in pc = "error".                 *)
(***************************************************************************)
EXTENDS Integers, Sequences, FiniteSets, TLC

\* Longest enumerated pattern, longest input string, and longest input
\* string tried against the reference pattern of main().
MaxLen == 4
MaxStr == 3
MaxRefStr == 6

\* Longest enumerated pattern of the runs that check termination.
MaxLiveLen == 3

\* NFA.ALPHABET_SIZE: the number of input symbols, and the column of epsilon.
ALPHABET_SIZE == 256

\* Characters a pattern is enumerated over.
PatternChars == {"a", "b", "|", "*", "(", ")"}

\* The pattern of main() and the patterns the specification quotes.
Reference == <<"(", "a", "|", "b", ")", "*", "a", "b", "b">>

ExtraPatterns ==
  { Reference,
    <<"a", "|", "b", "*">>,
    <<"a", "*", "|", "b">>,
    <<"a", "|", "b", "|", "c">>,
    <<"a", "b", "|", "c">>,
    <<"a", "(", "b", "|", "c", ")", "*">>,
    <<"(", "a", "*", "b", "*", ")", "*">> }

SeqsUpTo(S, n) == UNION { [1..k -> S] : k \in 0..n }

Patterns == SeqsUpTo(PatternChars, MaxLen) \cup ExtraPatterns

LivePatterns == SeqsUpTo(PatternChars, MaxLiveLen) \cup ExtraPatterns

\* Input symbols of the strings given to DFA.accept.
Symbols == {"a", "b", "c", "("}

\* ord(char) of every character that can label an NFA transition.
ord == [ ch \in Symbols |->
           CASE ch = "a" -> 97 [] ch = "b" -> 98 [] ch = "c" -> 99 [] ch = "(" -> 40 ]

\* The columns of range(ALPHABET_SIZE) that are modelled.  No pattern drawn
\* here stores a transition on any other byte, so every other column is
\* empty in every NFA and behaves as the column of a byte that the pattern
\* at hand does not use.
Bytes == { ord[ch] : ch \in Symbols }

Cols == Bytes \cup {ALPHABET_SIZE}

InputStrings(regex) ==
  IF regex = Reference THEN SeqsUpTo(Symbols, MaxRefStr) ELSE SeqsUpTo(Symbols, MaxStr)

Last(s) == s[Len(s)]
Front(s) == SubSeq(s, 1, Len(s) - 1)

Min(S) == CHOOSE x \in S : \A y \in S : x <= y

RECURSIVE Ascending(_)
Ascending(S) == IF S = {} THEN <<>> ELSE <<Min(S)>> \o Ascending(S \ {Min(S)})

(***************************************************************************)
(* Shunting-yard translator                                                *)
(***************************************************************************)

RECURSIVE preprocess_loop(_, _, _)
preprocess_loop(regex, k, new_regex) ==
  IF k > Len(regex) THEN new_regex
  ELSE LET ch == regex[k]
           prev_char == regex[k - 1]
           dotted == IF ch \notin {")", "|", "*"} /\ prev_char \notin {"|", "("}
                     THEN Append(new_regex, ".")
                     ELSE new_regex
       IN preprocess_loop(regex, k + 1, Append(dotted, ch))

\* preprocess(regex) for a non-empty regex (regex[0] raises on the empty one).
preprocess(regex) == preprocess_loop(regex, 2, <<regex[1]>>)

precedence == [ op \in {"|", ".", "*"} |->
                  CASE op = "|" -> 0 [] op = "." -> 1 [] op = "*" -> 2 ]

\* Mutant: pops only operators of strictly higher precedence.
RECURSIVE pop_operators_strict(_, _, _)
pop_operators_strict(stk, out, ch) ==
  IF Len(stk) > 0 /\ Last(stk) # "(" /\ precedence[Last(stk)] > precedence[ch]
  THEN pop_operators_strict(Front(stk), Append(out, Last(stk)), ch)
  ELSE <<stk, out>>

\* The while loop of an incoming operator: <<stack, postfix>> after it.
RECURSIVE pop_operators(_, _, _)
pop_operators(stk, out, ch) ==
  IF Len(stk) > 0 /\ Last(stk) # "(" /\ precedence[Last(stk)] >= precedence[ch]
  THEN pop_operators(Front(stk), Append(out, Last(stk)), ch)
  ELSE <<stk, out>>

\* The loop of ")" and the pop after it; ok is FALSE when stack[-1] or
\* stack.pop() meets the empty stack.
RECURSIVE pop_to_paren(_, _)
pop_to_paren(stk, out) ==
  IF Len(stk) = 0 THEN [ok |-> FALSE, stack |-> stk, postfix |-> out]
  ELSE IF Last(stk) # "(" THEN pop_to_paren(Front(stk), Append(out, Last(stk)))
  ELSE [ok |-> TRUE, stack |-> Front(stk), postfix |-> out]

\* The final while loop: everything left on the stack, top first.
RECURSIVE pop_all(_, _)
pop_all(stk, out) ==
  IF Len(stk) > 0 THEN pop_all(Front(stk), Append(out, Last(stk))) ELSE out

(***************************************************************************)
(* NFA builder                                                             *)
(***************************************************************************)

EmptyRow == [ j \in Cols |-> {} ]

single_char_nfa(char) ==
  [ num_states |-> 2,
    delta |-> << [EmptyRow EXCEPT ![ord[char]] = {1}], EmptyRow >>,
    start_state |-> 0,
    final_state |-> 1 ]

\* delta[state][col].add(target); rows are numbered from 0 in the source.
add_transition(delta, state, col, target) ==
  [delta EXCEPT ![state + 1][col] = @ \cup {target}]

\* Mutant: the loop edge is added but the final state is left where it was.
kleene_star_keep_final(self) ==
  [ self EXCEPT
      !.delta = add_transition(self.delta, self.final_state, ALPHABET_SIZE, self.start_state) ]

kleene_star(self) ==
  [ self EXCEPT
      !.delta = add_transition(self.delta, self.final_state, ALPHABET_SIZE, self.start_state),
      !.final_state = self.start_state ]

\* The two loops shared by concatenate and union: other's rows appended
\* with every target shifted by self.num_states.
append_shifted(self, other) ==
  self.delta \o
    [ i \in 1..other.num_states |->
        [ j \in Cols |-> { k + self.num_states : k \in other.delta[i][j] } ] ]

\* Mutant: the rows are appended but num_states is not raised.
concatenate_stale_count(self, other) ==
  [ num_states |-> self.num_states,
    delta |-> add_transition(append_shifted(self, other), self.final_state,
                             ALPHABET_SIZE, self.num_states + other.start_state),
    start_state |-> self.start_state,
    final_state |-> self.num_states + other.final_state ]

concatenate(self, other) ==
  [ num_states |-> self.num_states + other.num_states,
    delta |-> add_transition(append_shifted(self, other), self.final_state,
                             ALPHABET_SIZE, self.num_states + other.start_state),
    start_state |-> self.start_state,
    final_state |-> self.num_states + other.final_state ]

union(self, other) ==
  [ num_states |-> self.num_states + other.num_states,
    delta |-> add_transition(
                add_transition(append_shifted(self, other), self.start_state,
                               ALPHABET_SIZE, self.num_states + other.start_state),
                self.final_state, ALPHABET_SIZE, self.num_states + other.final_state),
    start_state |-> self.start_state,
    final_state |-> self.num_states + other.final_state ]

\* The loop of epsilon_closure on an explicit stack.
RECURSIVE closure_loop(_, _, _)
closure_loop(nfa, stk, closure) ==
  IF Len(stk) = 0 THEN closure
  ELSE LET current_state == Last(stk)
           rest == Front(stk)
       IN IF current_state \in closure THEN closure_loop(nfa, rest, closure)
          ELSE LET grown == closure \cup {current_state}
                   next == nfa.delta[current_state + 1][ALPHABET_SIZE] \ grown
               IN closure_loop(nfa, rest \o Ascending(next), grown)

epsilon_closure(nfa, state) == closure_loop(nfa, <<state>>, {})

(***************************************************************************)
(* Subset constructor and matcher                                          *)
(***************************************************************************)

\* Mutant: the direct successors, without their epsilon closures.
successor_set_unclosed(nfa, current_set, char) ==
  UNION { nfa.delta[nfa_state + 1][char] : nfa_state \in current_set }

\* The set s built for one char of the inner loop of to_dfa.
successor_set(nfa, current_set, char) ==
  UNION { epsilon_closure(nfa, state) :
            state \in UNION { nfa.delta[nfa_state + 1][char] : nfa_state \in current_set } }

\* One row of the DFA table before the remap: a set per byte.
successor_row(nfa, current_set) ==
  [ char \in Bytes |-> successor_set(nfa, current_set, char) ]

\* Mutant: the empty set is not put on the worklist.
enqueue_row_nonempty(q, row) ==
  q \o SelectSeq([ n \in 1..Cardinality(Bytes) |-> row[Ascending(Bytes)[n]] ],
                 LAMBDA X : X # {})

\* Mutant: the new sets go to the front of the worklist, which makes it a stack.
enqueue_row_front(q, row) ==
  [ n \in 1..Cardinality(Bytes) |-> row[Ascending(Bytes)[n]] ] \o q

\* queue after the appends of one iteration, in the order of range(ALPHABET_SIZE).
enqueue_row(q, row) ==
  q \o [ n \in 1..Cardinality(Bytes) |-> row[Ascending(Bytes)[n]] ]

\* The remap of the table through state_map (lines 133-135).
remap(num_states, delta, state_map) ==
  [ i \in 1..num_states |-> [ char \in Bytes |-> state_map[delta[i][char]] ] ]

\* The accepting indices (lines 136-138).
accepting(nfa, state_map) ==
  { state_map[x] : x \in { y \in DOMAIN state_map : nfa.final_state \in y } }

RECURSIVE accept_loop(_, _, _, _)
accept_loop(d, string, k, current_state) ==
  IF k > Len(string) THEN current_state \in d.final_states
  ELSE accept_loop(d, string, k + 1, d.delta[current_state + 1][ord[string[k]]])

accept(d, string) == accept_loop(d, string, 1, d.start_state)

(***************************************************************************)
(* The pipeline                                                            *)
(***************************************************************************)

VARIABLES
  regex,        \* the pattern given to dfa_from_regex
  pc,           \* the function that runs next
  err,          \* the exception that ended the run, and where it was raised
  infix,        \* infix_to_postfix: regex after preprocess
  pos,          \* index of the next character of the running for loop
  stack,        \* infix_to_postfix: the operator stack
  postfix,      \* infix_to_postfix: the output
  nstack,       \* postfix_to_nfa: the stack of NFAs
  nfa,          \* the NFA postfix_to_nfa returned
  num_states,   \* to_dfa: states numbered so far
  delta,        \* to_dfa: the table, a set per byte before the remap
  state_map,    \* to_dfa: NFA-state set -> index
  queue,        \* to_dfa: the worklist
  dfa,          \* the DFA to_dfa returned
  string,       \* the string given to accept
  result        \* what accept returned

vars == << regex, pc, err, infix, pos, stack, postfix, nstack, nfa,
           num_states, delta, state_map, queue, dfa, string, result >>

NoErr == [kind |-> "none", stage |-> "none"]
NoNFA == [num_states |-> 0, delta |-> <<>>, start_state |-> 0, final_state |-> 0]
NoDFA == [num_states |-> 0, delta |-> <<>>, start_state |-> 0, final_states |-> {}]

\* Everything but the pattern, before dfa_from_regex is called.
Blank ==
  /\ pc = "preprocess"
  /\ err = NoErr
  /\ infix = <<>>
  /\ pos = 1
  /\ stack = <<>>
  /\ postfix = <<>>
  /\ nstack = <<>>
  /\ nfa = NoNFA
  /\ num_states = 0
  /\ delta = <<>>
  /\ state_map = <<>>
  /\ queue = <<>>
  /\ dfa = NoDFA
  /\ string = <<>>
  /\ result = FALSE

Init == regex \in Patterns /\ Blank

LiveInit == regex \in LivePatterns /\ Blank

Raise(kind, stage) ==
  /\ pc' = "error"
  /\ err' = [kind |-> kind, stage |-> stage]

\* infix_to_postfix, line 17 and the initialisations after it.
Preprocess ==
  /\ pc = "preprocess"
  /\ IF Len(regex) = 0
     THEN /\ Raise("IndexError", "preprocess")
          /\ UNCHANGED infix
     ELSE /\ infix' = preprocess(regex)
          /\ pc' = "infix_to_postfix"
          /\ UNCHANGED err
  /\ pos' = 1
  /\ stack' = <<>>
  /\ postfix' = <<>>
  /\ UNCHANGED << regex, nstack, nfa, num_states, delta, state_map, queue, dfa, string, result >>

\* One iteration of the for loop of infix_to_postfix.
InfixStep ==
  /\ pc = "infix_to_postfix"
  /\ pos <= Len(infix)
  /\ LET ch == infix[pos] IN
       IF ch = "("
       THEN /\ stack' = Append(stack, ch)
            /\ pos' = pos + 1
            /\ UNCHANGED << postfix, pc, err >>
       ELSE IF ch \notin DOMAIN precedence /\ ch # ")"
       THEN /\ postfix' = Append(postfix, ch)
            /\ pos' = pos + 1
            /\ UNCHANGED << stack, pc, err >>
       ELSE IF ch \in DOMAIN precedence
       THEN /\ stack' = Append(pop_operators(stack, postfix, ch)[1], ch)
            /\ postfix' = pop_operators(stack, postfix, ch)[2]
            /\ pos' = pos + 1
            /\ UNCHANGED << pc, err >>
       ELSE LET r == pop_to_paren(stack, postfix) IN
            /\ stack' = r.stack
            /\ postfix' = r.postfix
            /\ IF r.ok
               THEN /\ pos' = pos + 1
                    /\ UNCHANGED << pc, err >>
               ELSE /\ Raise("IndexError", "infix_to_postfix")
                    /\ UNCHANGED pos
  /\ UNCHANGED << regex, infix, nstack, nfa, num_states, delta, state_map, queue, dfa, string, result >>

\* The end of infix_to_postfix (lines 38-40) and the start of postfix_to_nfa.
InfixReturn ==
  /\ pc = "infix_to_postfix"
  /\ pos > Len(infix)
  /\ postfix' = pop_all(stack, postfix)
  /\ stack' = <<>>
  /\ nstack' = <<>>
  /\ pos' = 1
  /\ pc' = "postfix_to_nfa"
  /\ UNCHANGED << regex, err, infix, nfa, num_states, delta, state_map, queue, dfa, string, result >>

\* One iteration of the for loop of postfix_to_nfa.
PostfixStep ==
  /\ pc = "postfix_to_nfa"
  /\ pos <= Len(postfix)
  /\ LET ch == postfix[pos]
         n == Len(nstack)
     IN
       IF ch \notin {"|", ".", "*"}
       THEN /\ nstack' = Append(nstack, single_char_nfa(ch))
            /\ pos' = pos + 1
            /\ UNCHANGED << pc, err >>
       ELSE IF ch = "*"
       THEN IF n >= 1
            THEN /\ nstack' = [nstack EXCEPT ![n] = kleene_star(nstack[n])]
                 /\ pos' = pos + 1
                 /\ UNCHANGED << pc, err >>
            ELSE /\ Raise("IndexError", "postfix_to_nfa")
                 /\ UNCHANGED << nstack, pos >>
       ELSE IF n >= 2
            THEN /\ nstack' = Append(SubSeq(nstack, 1, n - 2),
                                     IF ch = "|" THEN union(nstack[n - 1], nstack[n])
                                                 ELSE concatenate(nstack[n - 1], nstack[n]))
                 /\ pos' = pos + 1
                 /\ UNCHANGED << pc, err >>
            ELSE /\ Raise("IndexError", "postfix_to_nfa")
                 /\ nstack' = <<>>
                 /\ UNCHANGED pos
  /\ UNCHANGED << regex, infix, stack, postfix, nfa, num_states, delta, state_map, queue, dfa, string, result >>

\* return stack.pop() of postfix_to_nfa.
PostfixReturn ==
  /\ pc = "postfix_to_nfa"
  /\ pos > Len(postfix)
  /\ IF Len(nstack) = 0
     THEN /\ Raise("IndexError", "postfix_to_nfa")
          /\ UNCHANGED << nfa, nstack >>
     ELSE /\ nfa' = Last(nstack)
          /\ nstack' = Front(nstack)
          /\ pc' = "to_dfa"
          /\ UNCHANGED err
  /\ UNCHANGED << regex, infix, pos, stack, postfix, num_states, delta, state_map, queue, dfa, string, result >>

\* to_dfa, lines 113-118.
ToDfaStart ==
  /\ pc = "to_dfa"
  /\ num_states' = 0
  /\ delta' = <<>>
  /\ state_map' = <<>>
  /\ queue' = << epsilon_closure(nfa, nfa.start_state) >>
  /\ pc' = "to_dfa_loop"
  /\ UNCHANGED << regex, err, infix, pos, stack, postfix, nstack, nfa, dfa, string, result >>

\* Mutant: a set already numbered is read from the head of the queue but
\* not taken off it.
ToDfaStep_peek ==
  /\ pc = "to_dfa_loop"
  /\ Len(queue) > 0
  /\ LET current_set == Head(queue) IN
       IF current_set \in DOMAIN state_map
       THEN UNCHANGED << queue, state_map, delta, num_states >>
       ELSE /\ state_map' = [ x \in DOMAIN state_map \cup {current_set} |->
                                IF x = current_set THEN num_states ELSE state_map[x] ]
            /\ delta' = Append(delta, successor_row(nfa, current_set))
            /\ queue' = enqueue_row(Tail(queue), successor_row(nfa, current_set))
            /\ num_states' = num_states + 1
  /\ UNCHANGED << regex, pc, err, infix, pos, stack, postfix, nstack, nfa, dfa, string, result >>

\* One iteration of the while loop of to_dfa.
ToDfaStep ==
  /\ pc = "to_dfa_loop"
  /\ Len(queue) > 0
  /\ LET current_set == Head(queue) IN
       IF current_set \in DOMAIN state_map
       THEN /\ queue' = Tail(queue)
            /\ UNCHANGED << state_map, delta, num_states >>
       ELSE /\ state_map' = [ x \in DOMAIN state_map \cup {current_set} |->
                                IF x = current_set THEN num_states ELSE state_map[x] ]
            /\ delta' = Append(delta, successor_row(nfa, current_set))
            /\ queue' = enqueue_row(Tail(queue), successor_row(nfa, current_set))
            /\ num_states' = num_states + 1
  /\ UNCHANGED << regex, pc, err, infix, pos, stack, postfix, nstack, nfa, dfa, string, result >>

\* to_dfa after the loop (lines 133-139).
ToDfaReturn ==
  /\ pc = "to_dfa_loop"
  /\ Len(queue) = 0
  /\ IF \A i \in 1..num_states : \A char \in Bytes : delta[i][char] \in DOMAIN state_map
     THEN /\ dfa' = [ num_states |-> num_states,
                      delta |-> remap(num_states, delta, state_map),
                      start_state |-> 0,
                      final_states |-> accepting(nfa, state_map) ]
          /\ pc' = "compiled"
          /\ UNCHANGED err
     ELSE /\ Raise("KeyError", "to_dfa")
          /\ UNCHANGED dfa
  /\ UNCHANGED << regex, infix, pos, stack, postfix, nstack, nfa, num_states, delta, state_map, queue, string, result >>

\* dfa.accept(s) on the compiled DFA.
Accept ==
  /\ pc = "compiled"
  /\ \E s \in InputStrings(regex) :
       /\ string' = s
       /\ result' = accept(dfa, s)
  /\ pc' = "done"
  /\ UNCHANGED << regex, err, infix, pos, stack, postfix, nstack, nfa, num_states, delta, state_map, queue, dfa >>

Compile ==
  \/ Preprocess
  \/ InfixStep
  \/ InfixReturn
  \/ PostfixStep
  \/ PostfixReturn
  \/ ToDfaStart
  \/ ToDfaStep
  \/ ToDfaReturn

Next == Compile \/ Accept

Spec == Init /\ [][Next]_vars

\* The compiler alone.  The pipeline is one synchronous thread, so a step
\* that can be taken is taken.
CompileSpec == LiveInit /\ [][Compile]_vars /\ WF_vars(Compile)

(***************************************************************************)
(* Reference definitions the properties are stated against.  None of them  *)
(* is taken from the source: a recursive-descent parse of the infix        *)
(* grammar, the languages it denotes, and the NFA read as a graph.         *)
(***************************************************************************)

Operators == {"|", "*", "(", ")", "."}
IsLiteral(ch) == ch \notin Operators

\* E ::= T ('|' T)*    T ::= F F*    F ::= A '*'*    A ::= literal | '(' E ')'
\* Each parser returns whether it succeeded, the postfix form of what it
\* read, and the index after it.
Failed == [ok |-> FALSE, post |-> <<>>, next |-> 0]

RECURSIVE ParseE(_, _), AltTail(_, _), ParseT(_, _), CatTail(_, _), ParseF(_, _),
          StarTail(_, _), ParseA(_, _)

ParseA(p, i) ==
  IF i > Len(p) THEN Failed
  ELSE IF IsLiteral(p[i]) THEN [ok |-> TRUE, post |-> <<p[i]>>, next |-> i + 1]
  ELSE IF p[i] = "("
       THEN LET e == ParseE(p, i + 1) IN
            IF e.ok /\ e.next <= Len(p) /\ p[e.next] = ")"
            THEN [e EXCEPT !.next = e.next + 1]
            ELSE Failed
  ELSE Failed

StarTail(p, acc) ==
  IF acc.next <= Len(p) /\ p[acc.next] = "*"
  THEN StarTail(p, [acc EXCEPT !.post = Append(acc.post, "*"), !.next = acc.next + 1])
  ELSE acc

ParseF(p, i) == LET a == ParseA(p, i) IN IF a.ok THEN StarTail(p, a) ELSE Failed

CatTail(p, acc) ==
  IF acc.next <= Len(p) /\ (IsLiteral(p[acc.next]) \/ p[acc.next] = "(")
  THEN LET f == ParseF(p, acc.next) IN
       IF f.ok
       THEN CatTail(p, [ok |-> TRUE, post |-> Append(acc.post \o f.post, "."), next |-> f.next])
       ELSE Failed
  ELSE acc

ParseT(p, i) == LET f == ParseF(p, i) IN IF f.ok THEN CatTail(p, f) ELSE Failed

AltTail(p, acc) ==
  IF acc.next <= Len(p) /\ p[acc.next] = "|"
  THEN LET t == ParseT(p, acc.next + 1) IN
       IF t.ok
       THEN AltTail(p, [ok |-> TRUE, post |-> Append(acc.post \o t.post, "|"), next |-> t.next])
       ELSE Failed
  ELSE acc

ParseE(p, i) == LET t == ParseT(p, i) IN IF t.ok THEN AltTail(p, t) ELSE Failed

WellFormed(p) == LET e == ParseE(p, 1) IN e.ok /\ e.next = Len(p) + 1

RefPostfix(p) == ParseE(p, 1).post

\* Languages cut at length n: exact for the membership of a string of at
\* most n symbols, since the parts of a string are no longer than it.
RECURSIVE StarLang(_, _, _)
StarLang(A, acc, n) ==
  LET more == acc \cup { w \in { x \o y : x \in acc, y \in A } : Len(w) <= n }
  IN IF more = acc THEN acc ELSE StarLang(A, more, n)

RECURSIVE LangOfPostfix(_, _, _, _)
LangOfPostfix(post, k, langs, n) ==
  IF k > Len(post) THEN Last(langs)
  ELSE LET ch == post[k]
           m == Len(langs)
       IN IF ch = "*"
          THEN LangOfPostfix(post, k + 1,
                 [langs EXCEPT ![m] = StarLang(langs[m], {<<>>}, n)], n)
          ELSE IF ch = "|"
          THEN LangOfPostfix(post, k + 1,
                 Append(SubSeq(langs, 1, m - 2), langs[m - 1] \cup langs[m]), n)
          ELSE IF ch = "."
          THEN LangOfPostfix(post, k + 1,
                 Append(SubSeq(langs, 1, m - 2),
                        { w \in { x \o y : x \in langs[m - 1], y \in langs[m] } : Len(w) <= n }), n)
          ELSE LangOfPostfix(post, k + 1, Append(langs, IF n >= 1 THEN {<<ch>>} ELSE {}), n)

\* s is in the language the well-formed pattern p denotes.
InLanguage(p, s) == s \in LangOfPostfix(RefPostfix(p), 1, <<>>, Len(s))

\* The NFA as a graph: the states reachable from S over epsilon edges alone.
RECURSIVE EpsReach(_, _)
EpsReach(n, S) ==
  LET more == S \cup UNION { n.delta[q + 1][ALPHABET_SIZE] : q \in S }
  IN IF more = S THEN S ELSE EpsReach(n, more)

Move(n, S, char) == EpsReach(n, UNION { n.delta[q + 1][char] : q \in S })

RECURSIVE NfaRun(_, _, _, _)
NfaRun(n, s, k, S) ==
  IF k > Len(s) THEN S ELSE NfaRun(n, s, k + 1, Move(n, S, ord[s[k]]))

NfaAccepts(n, s) == n.final_state \in NfaRun(n, s, 1, EpsReach(n, {n.start_state}))

\* The NFA-state sets reachable from the closure of the start state.
RECURSIVE ReachSets(_, _)
ReachSets(n, found) ==
  LET more == found \cup { Move(n, X, char) : X \in found, char \in Bytes }
  IN IF more = found THEN found ELSE ReachSets(n, more)

Translated == pc \in {"postfix_to_nfa", "to_dfa", "to_dfa_loop", "compiled", "done"}
Built == pc \in {"to_dfa", "to_dfa_loop", "compiled", "done"}
Compiled == pc \in {"compiled", "done"}

(***************************************************************************)
(* C1                                                                      *)
(***************************************************************************)

\* C1: for a well-formed pattern, accept returns TRUE exactly for the
\* strings of the language the pattern denotes under the standard
\* semantics of union, concatenation and star.
C1_MatchesLanguage ==
  (pc = "done" /\ WellFormed(regex)) => (result = InLanguage(regex, string))

(***************************************************************************)
(* C2                                                                      *)
(***************************************************************************)

\* C2: the DFA of to_dfa accepts a string exactly when the NFA it was built
\* from accepts it, simulated over epsilon closures.
C2_DfaEquivalentToNfa ==
  pc = "done" => (result = NfaAccepts(nfa, string))

\* A string of two symbols or more accepted through a star's epsilon edge.
C2_Witness ==
  /\ pc = "done"
  /\ result
  /\ Len(string) >= 2
  /\ \E q \in 1..nfa.num_states : nfa.delta[q][ALPHABET_SIZE] # {}
  /\ "*" \in { regex[k] : k \in 1..Len(regex) }

(***************************************************************************)
(* C3                                                                      *)
(***************************************************************************)

DeadStates == { state_map[X] : X \in { Y \in DOMAIN state_map : Y = {} } }

\* C3: the DFA of to_dfa is total: every row has one destination in
\* 0..num_states-1 for every byte, the remap meets no missing key, and the
\* state of the empty set, if any, is not accepting and loops on every byte.
C3_Total ==
  /\ err.kind # "KeyError"
  /\ Compiled =>
       /\ Len(dfa.delta) = dfa.num_states
       /\ dfa.start_state \in 0..(dfa.num_states - 1)
       /\ \A i \in 1..dfa.num_states :
            /\ DOMAIN dfa.delta[i] = Bytes
            /\ \A char \in Bytes : dfa.delta[i][char] \in 0..(dfa.num_states - 1)
       /\ \A dead \in DeadStates :
            /\ dead \notin dfa.final_states
            /\ \A char \in Bytes : dfa.delta[dead + 1][char] = dead

\* A string whose run enters the state of the empty set and stays there.
C3_Witness ==
  /\ pc = "done"
  /\ DeadStates # {}
  /\ dfa.num_states >= 3
  /\ string = <<"c", "a", "a">>
  /\ "a" \in { regex[k] : k \in 1..Len(regex) }
  /\ "c" \notin { regex[k] : k \in 1..Len(regex) }
  /\ ~result

(***************************************************************************)
(* C4                                                                      *)
(***************************************************************************)

MalformedExamples == { <<"(">>, <<")">>, <<"*", "a">>, <<>> }

\* C4: each of the four malformed patterns ends in MalformedRegex, raised
\* by the translation stage; none crashes otherwise and none yields a DFA.
C4_MalformedRejected ==
  regex \in MalformedExamples =>
    /\ ~Built
    /\ pc = "error" =>
         /\ err.kind = "MalformedRegex"
         /\ err.stage \in {"preprocess", "infix_to_postfix"}

(***************************************************************************)
(* C5                                                                      *)
(***************************************************************************)

EndsInAbb(s) ==
  Len(s) >= 3 /\ SubSeq(s, Len(s) - 2, Len(s)) = <<"a", "b", "b">>

\* C5: the DFA of (a|b)*abb accepts a string over {a, b} exactly when the
\* string ends in abb; so it accepts aabb and abb and rejects ab, aa, bba,
\* abab and the empty string.
C5_ReferencePattern ==
  (pc = "done" /\ regex = Reference /\ string \in Seq({"a", "b"}))
    => (result = EndsInAbb(string))

C5_Witness ==
  pc = "done" /\ regex = Reference /\ string = <<"a", "a", "b", "b">> /\ result

(***************************************************************************)
(* C6                                                                      *)
(***************************************************************************)

\* preprocess puts a "." between p[k] and p[k+1].
Dotted(p, k) == p[k + 1] \notin {")", "|", "*"} /\ p[k] \notin {"|", "("}

\* Where p[k] stands after the insertions.
Where(p, k) == k + Cardinality({ j \in 1..(k - 1) : Dotted(p, j) })

Literals(s) == SelectSeq(s, IsLiteral)

\* C6: for a well-formed pattern, preprocess inserts "." exactly between
\* the adjacent pairs that need it, and infix_to_postfix returns the
\* postfix form of the parse with * above concatenation above |, both
\* left-associative: no parenthesis in it, the literals in input order.
C6_PostfixOfParse ==
  WellFormed(regex) =>
    /\ ~(pc = "error" /\ err.stage \in {"preprocess", "infix_to_postfix"})
    /\ pc # "preprocess" =>
         /\ Len(infix) = Where(regex, Len(regex))
         /\ \A k \in 1..Len(regex) : infix[Where(regex, k)] = regex[k]
         /\ \A k \in 1..(Len(regex) - 1) :
              Dotted(regex, k) => infix[Where(regex, k) + 1] = "."
    /\ Translated =>
         /\ postfix = RefPostfix(regex)
         /\ \A k \in 1..Len(postfix) : postfix[k] \notin {"(", ")"}
         /\ Literals(postfix) = Literals(regex)

C6_Witness ==
  /\ pc = "postfix_to_nfa"
  /\ regex = <<"a", "(", "b", "|", "c", ")", "*">>
  /\ postfix = <<"a", "b", "c", "|", "*", ".">>

(***************************************************************************)
(* C7                                                                      *)
(***************************************************************************)

WellFormedNFA(n) ==
  /\ Len(n.delta) = n.num_states
  /\ n.start_state \in 0..(n.num_states - 1)
  /\ n.final_state \in 0..(n.num_states - 1)
  /\ \A i \in 1..Len(n.delta) : \A j \in Cols : n.delta[i][j] \subseteq 0..(n.num_states - 1)

\* What one token of postfix_to_nfa does to the sizes on the NFA stack.
SizesStep ==
  (pc = "postfix_to_nfa" /\ pos' = pos + 1) =>
    LET ch == postfix[pos]
        n == Len(nstack)
    IN /\ ch \notin {"|", ".", "*"} =>
            /\ Len(nstack') = n + 1
            /\ nstack'[n + 1].num_states = 2
            /\ SubSeq(nstack', 1, n) = nstack
       /\ ch = "*" =>
            /\ Len(nstack') = n
            /\ nstack'[n].num_states >= nstack[n].num_states
            /\ SubSeq(nstack', 1, n - 1) = SubSeq(nstack, 1, n - 1)
       /\ ch \in {"|", "."} =>
            /\ Len(nstack') = n - 1
            /\ nstack'[n - 1].num_states = nstack[n - 1].num_states + nstack[n].num_states
            /\ nstack'[n - 1].num_states >= nstack[n - 1].num_states
            /\ SubSeq(nstack', 1, n - 2) = SubSeq(nstack, 1, n - 2)

\* C7: every NFA that single_char_nfa, kleene_star, concatenate and union
\* leave on the stack is well formed (num_states rows, every target and the
\* start and final state in 0..num_states-1); num_states never decreases,
\* and concatenate and union give the sum of the operands' counts.
C7_ClosedComposition ==
  /\ [](/\ \A i \in 1..Len(nstack) : WellFormedNFA(nstack[i])
        /\ Built => WellFormedNFA(nfa))
  /\ [][SizesStep]_vars

\* A union of a four-state and a two-state NFA has just been built.
C7_Witness ==
  /\ pc = "postfix_to_nfa"
  /\ pos > 1
  /\ postfix[pos - 1] = "|"
  /\ Len(nstack) = 1
  /\ nstack[1].num_states = 6

(***************************************************************************)
(* C8                                                                      *)
(***************************************************************************)

Indices == 0..(dfa.num_states - 1)

\* The lowest-numbered state with an edge to i, and the lowest byte of
\* such an edge.
FirstParent(i) == Min({ j \in Indices : \E char \in Bytes : dfa.delta[j + 1][char] = i })
FirstByte(i) == Min({ char \in Bytes : dfa.delta[FirstParent(i) + 1][char] = i })

RECURSIVE DfaReach(_)
DfaReach(S) ==
  LET more == S \cup { dfa.delta[i + 1][char] : i \in S, char \in Bytes }
  IN IF more = S THEN S ELSE DfaReach(more)

\* C8: the DFA states are, one to one, the NFA-state sets reachable from
\* the closure of the NFA start state, numbered from 0 in the order a FIFO
\* worklist first meets them; state 0 is that closure; an edge on a byte
\* leads to the state of the closed set of successors; a state is accepting
\* exactly when its set holds the NFA's final state; every state is
\* reachable from state 0.
C8_SubsetConstruction ==
  pc = "compiled" =>
    LET start == EpsReach(nfa, {nfa.start_state}) IN
    /\ DOMAIN state_map = ReachSets(nfa, {start})
    /\ { state_map[X] : X \in DOMAIN state_map } = Indices
    /\ \A X, Y \in DOMAIN state_map : state_map[X] = state_map[Y] => X = Y
    /\ state_map[start] = 0
    /\ dfa.start_state = 0
    /\ \A X \in DOMAIN state_map : \A char \in Bytes :
         dfa.delta[state_map[X] + 1][char] = state_map[Move(nfa, X, char)]
    /\ dfa.final_states = { state_map[X] : X \in { Y \in DOMAIN state_map : nfa.final_state \in Y } }
    /\ \A i \in Indices \ {0} : FirstParent(i) < i
    /\ \A i, k \in Indices \ {0} :
         i < k => \/ FirstParent(i) < FirstParent(k)
                  \/ FirstParent(i) = FirstParent(k) /\ FirstByte(i) < FirstByte(k)
    /\ DfaReach({dfa.start_state}) = Indices

C8_Witness ==
  /\ pc = "compiled"
  /\ dfa.num_states >= 5
  /\ dfa.final_states # {}
  /\ \E X \in DOMAIN state_map : Cardinality(X) >= 3

(***************************************************************************)
(* C9                                                                      *)
(***************************************************************************)

\* C9: to_dfa, once called, empties its queue and returns, also on an NFA
\* with epsilon cycles, and the DFA it returns has at most 2^n states for
\* an NFA of n states.
C9_ToDfaTerminates ==
  /\ (pc = "to_dfa") ~> (pc = "compiled" /\ Len(queue) = 0)
  /\ [](Compiled => dfa.num_states <= 2 ^ nfa.num_states)

\* to_dfa has returned on an NFA with an epsilon cycle of two or more states.
C9_Witness ==
  /\ pc = "compiled"
  /\ \E q \in 0..(nfa.num_states - 1) :
       \E r \in nfa.delta[q + 1][ALPHABET_SIZE] :
         r # q /\ q \in EpsReach(nfa, {r})

(***************************************************************************)
(* C10                                                                     *)
(***************************************************************************)

Count(p, ch, k) == Cardinality({ j \in 1..k : p[j] = ch })

Unbalanced(p) ==
  \/ \E k \in 1..Len(p) : Count(p, ")", k) > Count(p, "(", k)
  \/ Count(p, "(", Len(p)) > Count(p, ")", Len(p))

\* C10: on a pattern with unbalanced parentheses infix_to_postfix raises
\* instead of returning, and no "(" is ever put into the postfix output.
C10_UnbalancedRaises ==
  Unbalanced(regex) =>
    /\ ~Translated
    /\ \A k \in 1..Len(postfix) : postfix[k] # "("

====
